---------------------------- MODULE Spec2Model ----------------------------
(***************************************************************************)
(* A model of polygonum: the reconstruction of the planar faces of a wire  *)
(* frame.  segments -> point graph -> pruned point graph -> [connected     *)
(* components] -> segment graph -> traversal -> polygon set -> filter.     *)
(*                                                                         *)
(* Points are triples of integers <<x, y, z>>; every quantity the code     *)
(* computes in f64 from such points is computed here exactly:              *)
(*   - an angle theta is kept as the pair <<sine part, cosine part>> that  *)
(*     the code hands to atan2, and two angles are compared as atan2       *)
(*     orders them;                                                        *)
(*   - coplanarity is kept in units of 1/6, area() as 4 * area^2 and       *)
(*     area_projected() in units of 1/2, which preserves every comparison  *)
(*     the code makes.                                                     *)
(* The iteration order of a HashMap or HashSet is not specified; it is the *)
(* variable `order`, a permutation of the points chosen when polygonalize  *)
(* is called.                                                              *)
(***************************************************************************)
EXTENDS Integers, Sequences, FiniteSets, TLC

(***************************************************************************)
(* Generic helpers on sequences and sets.                                  *)
(***************************************************************************)
Range(s) == {s[i] : i \in DOMAIN s}

Abs(n) == IF n < 0 THEN -n ELSE n

Reverse(s) == [i \in 1..Len(s) |-> s[Len(s) + 1 - i]]

\* TRUE; to decide it, `value` is computed.  The loops below are recursive
\* operators that carry the state of the loop along; they test it so that
\* each iteration is computed before the next one begins, as in the code.
Evaluated(value) == value = value

(***************************************************************************)
(* point.rs: Point and Segment.                                            *)
(***************************************************************************)
\* Ord for Point: lexicographic on (x, y, z).
PointLess(p, q) ==
    \/ p[1] < q[1]
    \/ p[1] = q[1] /\ p[2] < q[2]
    \/ p[1] = q[1] /\ p[2] = q[2] /\ p[3] < q[3]

(***************************************************************************)
(* plane.rs: the vector kernel.                                            *)
(***************************************************************************)
\* Vector::between: the oriented vector of a segment.
between(segment) ==
    << segment[2][1] - segment[1][1],
       segment[2][2] - segment[1][2],
       segment[2][3] - segment[1][3] >>

\* Vector::subtract.
subtract(a, b) == << a[1] - b[1], a[2] - b[2], a[3] - b[3] >>

\* Vector::add.
add(a, b) == << a[1] + b[1], a[2] + b[2], a[3] + b[3] >>

\* Vector::scale.
scale(a, factor) == << a[1] * factor, a[2] * factor, a[3] * factor >>

\* Vector::cross.
cross(a, b) ==
    << a[2] * b[3] - a[3] * b[2],
       a[3] * b[1] - a[1] * b[3],
       a[1] * b[2] - a[2] * b[1] >>

\* Vector::dot.
dot(a, b) == a[1] * b[1] + a[2] * b[2] + a[3] * b[3]

\* Vector::norm, squared.
norm(a) == a[1] * a[1] + a[2] * a[2] + a[3] * a[3]

\* Vector::theta on the two unit vectors: the arguments <<y, x>> of atan2.
\* Normalising self and other scales both arguments by the same positive
\* factor 1 / (|self| * |other|), which atan2 ignores, so the arguments are
\* computed from the vectors themselves.
theta(a, b) ==
    LET self == between(a)
        other == between(b)
    IN  << other[2] * self[1] - other[1] * self[2],
           self[1] * other[1] + self[2] * other[2] >>

\* Where atan2(t[1], t[2]) lies in (-pi, pi]: 0 in (-pi, 0), 1 at 0,
\* 2 in (0, pi), 3 at pi.
ThetaSector(t) ==
    IF t[1] < 0 THEN 0
    ELSE IF t[1] > 0 THEN 2
    ELSE IF t[2] >= 0 THEN 1 ELSE 3

\* pi + atan2(s[1], s[2]) < pi + atan2(t[1], t[2]).
ThetaLess(s, t) ==
    \/ ThetaSector(s) < ThetaSector(t)
    \/ /\ ThetaSector(s) = ThetaSector(t)
       /\ ThetaSector(s) \in {0, 2}
       /\ s[2] * t[1] - s[1] * t[2] > 0

\* plane::coplanarity, times 6.
coplanarity(a, b, c, d) ==
    Abs(dot(cross(between(<<a, b>>), between(<<a, c>>)), between(<<a, d>>)))

\* Iterator::reduce with |accumulator, element| accumulator.add(&element).
RECURSIVE Reduce(_, _)
Reduce(vectors, accumulator) ==
    IF Evaluated(accumulator) /\ Len(vectors) = 0 THEN accumulator
    ELSE Reduce(Tail(vectors), add(accumulator, Head(vectors)))

\* reduce(...).unwrap() on a list that is not empty.
SumVectors(vectors) == Reduce(Tail(vectors), Head(vectors))

\* plane::center, times the number n of unique vertices: the first vertex is
\* skipped because the last repeats it.
center(vertices) == SumVectors(Tail(vertices))

\* plane::normal of a closed vertex list.  Every vertex is translated by the
\* centre; with the centre kept as n * centre the cross products come out
\* times n^2, and the sum is divided by n^2 (it is an exact multiple).
normal(vertices) ==
    LET n == Len(vertices) - 1
        offset == center(vertices)
        term(index) ==
            cross(subtract(scale(vertices[index], n), offset),
                  subtract(scale(vertices[index + 1], n), offset))
        total == SumVectors([index \in 1..n |-> term(index)])
    IN  << total[1] \div (n * n), total[2] \div (n * n), total[3] \div (n * n) >>


(***************************************************************************)
(* The state.                                                              *)
(***************************************************************************)
VARIABLES
    segments,       \* polygonalize's argument `segments`
    parallelize,    \* polygonalize's argument `parallelize`
    minimum_area_projected, \* the threshold, in hundredths
    order,          \* the iteration order of the hash maps and sets of this call
    pc,             \* where the call is
    adjacencies,    \* Pipeline::adjacencies, the graph of points
    leaves,         \* prune: the leaves of the next round
    explored,       \* PartitionPipeline::apply: the explored vertices
    cursor,         \* PartitionPipeline::apply: keys already taken from keys()
    partitions,     \* components emitted by the discovery and not yet processed
    emitted,        \* every component emitted by the discovery so far
    paths,          \* every polygon handed to filter so far
    output,         \* the Vec<Polygon> collected so far
    call,           \* 1 in the first call of polygonalize, 2 in the second
    variant,        \* how the second call differs from the first
    first,          \* the first call: its arguments, pruned graph and output
    path,           \* Polygon::from: its argument `vertices`
    made,           \* every vertex list given to Polygon::from, with its result
    component,      \* Pipeline::apply: the Option<&HashSet<Point>> of the partition
    segment_graph,  \* SegmentGraph::adjacencies
    traversal,      \* SegmentGraph::segment: its stack, depth and paths
    frames,         \* the calls of SegmentGraph::traverse that have not returned
    loop,           \* SegmentGraph::segment: where its loops are
    bridge          \* par_bridge: what each worker of the thread pool is doing

\* The variables of a call of polygonalize that runs stage by stage.
stages == << segments, parallelize, minimum_area_projected, order, pc,
             adjacencies, leaves, explored, cursor, partitions, emitted, paths,
             output, call, variant, first >>

\* The variables of Polygon::from, of the steps inside SegmentGraph::segment
\* and of the workers of PartitionPipeline::apply.
steps == << path, made, component, segment_graph, traversal, frames, loop, bridge >>

vars == << stages, steps >>

(***************************************************************************)
(* Iteration order of hash collections.                                    *)
(***************************************************************************)
\* The elements of a set of points in the order its iterator yields them.
IterPoints(set) == SelectSeq(order, LAMBDA p : p \in set)

\* The pairs of elements of a sequence, the pairs with the same first element
\* together, in the order of the sequence.
Pairs(seq) ==
    [k \in 1..(Len(seq) * Len(seq)) |->
        << seq[((k - 1) \div Len(seq)) + 1], seq[((k - 1) % Len(seq)) + 1] >>]

\* The elements of a set of segments in the order its iterator yields them.
IterSegments(set) == SelectSeq(Pairs(order), LAMBDA s : s \in set)

(***************************************************************************)
(* polygon.rs: Polygon.                                                    *)
(***************************************************************************)
Min(set) == CHOOSE m \in set : \A n \in set : m <= n

Max(set) == CHOOSE m \in set : \A n \in set : m >= n

\* Polygon::boundary: the bounding box in x and y (z is left NaN).
boundary(vertices) ==
    << << Min({v[1] : v \in Range(vertices)}), Min({v[2] : v \in Range(vertices)}) >>,
       << Max({v[1] : v \in Range(vertices)}), Max({v[2] : v \in Range(vertices)}) >> >>

\* The Polygon of an oriented, closed vertex list.
Polygon(oriented) ==
    [ boundary |-> boundary(oriented),
      set |-> Range(oriented),
      sequence |-> oriented ]

\* Orient that never reverses.
KeepOrder(closed) == closed

\* The closed vertex list, reversed if its normal points downwards.
Orient(closed) == IF normal(closed)[3] < 0 THEN Reverse(closed) ELSE closed

\* Polygon::from.
PolygonFrom(vertices) ==
    Polygon(Orient(IF Len(vertices) > 0 THEN Append(vertices, vertices[1])
                   ELSE vertices))

\* Polygon::contains_boundary_of.
contains_boundary_of(self, other) ==
    /\ self.boundary[1][1] <= other.boundary[1][1]
    /\ self.boundary[2][1] >= other.boundary[2][1]
    /\ self.boundary[1][2] <= other.boundary[1][2]
    /\ self.boundary[2][2] >= other.boundary[2][2]

\* One edge (a, b) of the ray casting: whether it toggles `inside`.  The
\* division by b.y - a.y is cleared by multiplying with it, minding its sign.
Crosses(a, b, point) ==
    /\ (a[2] > point[2]) # (b[2] > point[2])
    /\ LET dy == b[2] - a[2]
           lhs == (point[1] - a[1]) * dy
           rhs == (point[2] - a[2]) * (b[1] - a[1])
       IN  IF dy > 0 THEN lhs < rhs ELSE lhs > rhs

\* Polygon::contains_point.
contains_point(self, point) ==
    IF point \in self.set THEN TRUE
    ELSE LET n == Len(self.sequence) - 1
             toggles == { i \in 0..(n - 1) :
                 Crosses(self.sequence[i + 1], self.sequence[((i + 1) % n) + 1], point) }
         IN  Cardinality(toggles) % 2 = 1

\* shares_sides_with that asks for every side of `other`, not for one.
SharesEverySide(self, other) ==
    \A j \in 1..(Len(other.sequence) - 1) :
        \E i \in 1..(Len(self.sequence) - 1) :
            \/ << self.sequence[i], self.sequence[i + 1] >>
                   = << other.sequence[j], other.sequence[j + 1] >>
            \/ << self.sequence[i], self.sequence[i + 1] >>
                   = << other.sequence[j + 1], other.sequence[j] >>

\* Polygon::shares_sides_with.
shares_sides_with(self, other) ==
    \E i \in 1..(Len(self.sequence) - 1), j \in 1..(Len(other.sequence) - 1) :
        \/ << self.sequence[i], self.sequence[i + 1] >>
               = << other.sequence[j], other.sequence[j + 1] >>
        \/ << self.sequence[i], self.sequence[i + 1] >>
               = << other.sequence[j + 1], other.sequence[j] >>

\* Polygon::contains.
contains(self, other) ==
    /\ contains_boundary_of(self, other)
    /\ \A i \in 1..Len(other.sequence) : contains_point(self, other.sequence[i])

\* Polygon::area, as 4 * area^2.
area(self) == norm(normal(self.sequence))

\* Polygon::area_projected, times 2.
area_projected(self) == Abs(normal(self.sequence)[3])

\* BTreeSet<Point>::iter: the points of a set in the ascending order of Ord.
Ascending(set) ==
    [k \in 1..Cardinality(set) |->
        CHOOSE p \in set : Cardinality({ q \in set : PointLess(q, p) }) = k - 1]

\* PartialEq for Polygon that compares the vertex sequences.
SequenceEq(self, other) == self.sequence = other.sequence

\* PartialEq for Polygon: self.set.eq(&other.set), which compares the two
\* sets element by element in ascending order.
PolygonEq(self, other) == Ascending(self.set) = Ascending(other.set)

\* Hash for Polygon: what the hasher is fed, the coordinates x, y, z of the
\* points of the set in ascending order (a coordinate stands for its bits).
PolygonHash(self) ==
    [k \in 1..(3 * Cardinality(self.set)) |->
        Ascending(self.set)[((k - 1) \div 3) + 1][((k - 1) % 3) + 1]]

\* InsertPolygon with the polygon left out.
InsertNoPolygon(set, polygon) == set

\* HashSet<Polygon>::insert: equality is equality of the vertex sets, and an
\* element that is already present is kept.
InsertPolygon(set, polygon) ==
    IF \E q \in set : q.set = polygon.set THEN set ELSE set \cup {polygon}


(***************************************************************************)
(* Stable sort of `items` by the integer `keys` (ascending), as Vec::sort_by *)
(* does: equal keys keep the order they came in.                           *)
(***************************************************************************)
\* The item at index i comes before the item at index j: its key is smaller,
\* or equal and i < j.
SortsBefore(keys, i, j) == keys[i] < keys[j] \/ (keys[i] = keys[j] /\ i < j)

\* The items in the order of their keys.
Sorted(items, keys) ==
    [k \in 1..Len(items) |->
        items[CHOOSE i \in 1..Len(items) :
                 Cardinality({ j \in 1..Len(items) : SortsBefore(keys, j, i) }) = k - 1]]

SortByKey(items, key(_)) ==
    Sorted(items, [i \in 1..Len(items) |-> key(items[i])] \o << >>)

\* Polygon `a` comes before polygon `b` in the iteration of a set: the last
\* point of `order` that is a vertex of only one of them is a vertex of `b`.
IteratesBefore(a, b) ==
    \E i \in 1..Len(order) :
        /\ order[i] \in b.set \ a.set
        /\ \A j \in (i + 1)..Len(order) : (order[j] \in a.set) = (order[j] \in b.set)

\* The elements of a set of polygons in the order its iterator yields them.
IterPolygons(set) ==
    [k \in 1..Cardinality(set) |->
        CHOOSE q \in set :
            Cardinality({ r \in set : IteratesBefore(r, q) }) = k - 1]

(***************************************************************************)
(* pipeline.rs: Pipeline.                                                  *)
(***************************************************************************)
\* entry(u).and_modify(|to| to.insert(v)).or_insert(HashSet::from([v])).
InsertEdge(map, u, v) ==
    IF u \in DOMAIN map THEN [map EXCEPT ![u] = @ \cup {v}]
    ELSE map @@ (u :> {v})

\* Pipeline::construct_adjacency_list_of_points.
RECURSIVE construct_adjacency_list_of_points(_, _)
construct_adjacency_list_of_points(list, map) ==
    IF Evaluated(map) /\ Len(list) = 0 THEN map
    ELSE construct_adjacency_list_of_points(Tail(list),
             InsertEdge(InsertEdge(map, Head(list)[1], Head(list)[2]),
                        Head(list)[2], Head(list)[1]))

\* DetectLeaves that finds none.
NoLeaves(map) == {}

\* The detection of the leaves: the points of degree 1.
DetectLeaves(map) == {p \in DOMAIN map : Cardinality(map[p]) = 1}

\* Unlink that leaves the neighbour's set as it is.
KeepLink(state, leaf, neighbours) == state

\* Unlink with a neighbour queued only when it has no other neighbour left.
UnlinkLate(state, leaf, neighbours) ==
    IF Len(neighbours) > 0
    THEN [ adjacencies |-> [state.adjacencies EXCEPT ![neighbours[1]] = @ \ {leaf}],
           updated |-> IF Cardinality(state.adjacencies[neighbours[1]]) <= 1
                       THEN state.updated \cup {neighbours[1]}
                       ELSE state.updated ]
    ELSE state

\* `if let Some(adjacent) = neighbours.iter().next()`: the leaf is taken out
\* of its neighbour's set, and a neighbour left with at most one neighbour
\* is a leaf of the next round.
Unlink(state, leaf, neighbours) ==
    IF Len(neighbours) > 0
    THEN [ adjacencies |-> [state.adjacencies EXCEPT ![neighbours[1]] = @ \ {leaf}],
           updated |-> IF Cardinality(state.adjacencies[neighbours[1]]) <= 2
                       THEN state.updated \cup {neighbours[1]}
                       ELSE state.updated ]
    ELSE state

\* Remove that leaves the leaf in the graph.
RemoveNothing(state, leaf) == state

\* adjacencies.remove(leaf).
Remove(state, leaf) ==
    [ adjacencies |-> [q \in (DOMAIN state.adjacencies) \ {leaf} |-> state.adjacencies[q]],
      updated |-> state.updated ]

PruneLeaf(state, leaf) ==
    IF leaf \in DOMAIN state.adjacencies
    THEN Remove(Unlink(state, leaf, IterPoints(state.adjacencies[leaf])), leaf)
    ELSE state

\* PruneLeaves with the loop left after its first leaf.
PruneFirstLeaf(state, list) ==
    IF Len(list) = 0 THEN state ELSE PruneLeaf(state, Head(list))

\* The loop `for leaf in &leaves`.
RECURSIVE PruneLeaves(_, _)
PruneLeaves(state, list) ==
    IF Evaluated(state) /\ Len(list) = 0 THEN state
    ELSE PruneLeaves(PruneLeaf(state, Head(list)), Tail(list))

\* One round of the loop `while !leaves.is_empty()`.
PruneRound(map, round) ==
    PruneLeaves([adjacencies |-> map, updated |-> {}], IterPoints(round))

\* Pipeline::prune_adjacency_list_of_points from the leaf set `round` on.
RECURSIVE PruneFrom(_, _)
RECURSIVE PruneNext(_)
PruneFrom(map, round) ==
    IF Evaluated(map) /\ round = {} THEN map
    ELSE PruneNext(PruneRound(map, round))

\* `leaves = updated` and the next evaluation of the loop's condition.
PruneNext(state) == PruneFrom(state.adjacencies, state.updated)

\* Pipeline::prune_adjacency_list_of_points.
prune_adjacency_list_of_points(map) == PruneFrom(map, DetectLeaves(map))

\* LinkSegments that links a segment to its own reverse as well.
LinkAlways(graph, point, from, to) ==
    InsertEdge(graph, <<from, point>>, <<point, to>>)

\* The link of the ingoing segment (from, point) to the outgoing (point, to).
LinkSegments(graph, point, from, to) ==
    IF from # to
    THEN InsertEdge(graph, <<from, point>>, <<point, to>>)
    ELSE graph

RECURSIVE LinkPairs(_, _, _)
LinkPairs(graph, point, pairs) ==
    IF Evaluated(graph) /\ Len(pairs) = 0 THEN graph
    ELSE LinkPairs(LinkSegments(graph, point, Head(pairs)[1], Head(pairs)[2]),
                   point, Tail(pairs))

RECURSIVE LinkPoints(_, _, _)
LinkPoints(graph, list, map) ==
    IF Evaluated(graph) /\ Len(list) = 0 THEN graph
    ELSE LinkPoints(LinkPairs(graph, Head(list), Pairs(IterPoints(map[Head(list)]))),
                    Tail(list), map)

\* Option: None and Some(value).
None == << >>
Some(value) == << value >>

\* Pipeline::build_segment_graph_from_adjacency_list_of_points.
build_segment_graph_from_adjacency_list_of_points(points, map) ==
    LinkPoints(<<>>,
               IterPoints({p \in DOMAIN map : points = None \/ p \in points[1]}),
               map)

(***************************************************************************)
(* pipeline.rs: PartitionPipeline.                                         *)
(***************************************************************************)
\* explore that does not go on to the neighbours.
ExploreAlone(map, point, state) ==
    IF point \notin state.explored
    THEN [ explored |-> state.explored \cup {point},
           partition |-> state.partition \cup {point} ]
    ELSE state

\* PartitionPipeline::explore.
RECURSIVE explore(_, _, _)
RECURSIVE ExploreNeighbors(_, _, _)
explore(map, point, state) ==
    IF point \notin state.explored
    THEN ExploreNeighbors(map, IterPoints(map[point]),
             [ explored |-> state.explored \cup {point},
               partition |-> state.partition \cup {point} ])
    ELSE state

ExploreNeighbors(map, list, state) ==
    IF Evaluated(state) /\ Len(list) = 0 THEN state
    ELSE ExploreNeighbors(map, Tail(list), explore(map, Head(list), state))


(***************************************************************************)
(* graph.rs: SegmentGraph.                                                 *)
(***************************************************************************)
\* The two criteria of SegmentGraph::segment: the first minimises
\* (theta, coplanarity), the second (coplanarity, theta).
ThetaFirst == "theta"
CoplanarityFirst == "coplanarity"

\* criterion(previous, current, next).
Criterion(previous, current, next) ==
    [ theta |-> theta(current, next),
      coplanarity |-> coplanarity(previous[1], current[1], current[2], next[2]) ]

\* alpha.partial_cmp(beta) == Less on the pairs of the criterion.
ScoreLess(criterion, alpha, beta) ==
    IF criterion = ThetaFirst
    THEN \/ ThetaLess(alpha.theta, beta.theta)
         \/ /\ ~ThetaLess(beta.theta, alpha.theta)
            /\ alpha.coplanarity < beta.coplanarity
    ELSE \/ alpha.coplanarity < beta.coplanarity
         \/ /\ alpha.coplanarity = beta.coplanarity
            /\ ThetaLess(alpha.theta, beta.theta)

\* MinBy that returns the first candidate.
FirstCandidate(criterion, previous, current, candidates, best) == best

\* Iterator::min_by: of several minimal elements the first is returned.
RECURSIVE MinBy(_, _, _, _, _)
MinBy(criterion, previous, current, candidates, best) ==
    IF Evaluated(best) /\ Len(candidates) = 0 THEN best
    ELSE MinBy(criterion, previous, current, Tail(candidates),
               IF ScoreLess(criterion,
                      Criterion(previous, current, Head(candidates)),
                      Criterion(previous, current, best))
               THEN Head(candidates) ELSE best)

\* min_by over the candidates in iteration order.
ElectAmong(criterion, previous, current, candidates) ==
    IF Len(candidates) = 0 THEN None
    ELSE Some(MinBy(criterion, previous, current, Tail(candidates), Head(candidates)))

\* The successor that minimises the criterion among self.adjacencies[current].
Elect(graph, criterion, previous, current) ==
    ElectAmong(criterion, previous, current, IterSegments(graph[current]))

\* Pop that leaves stack and depth as they are.
PopNothing(state) == state

\* stack.pop() and depth.remove(&segment).
Pop(state) ==
    [state EXCEPT
        !.stack = IF Len(@) > 0 THEN SubSeq(@, 1, Len(@) - 1) ELSE @,
        !.depth = IF Len(state.stack) > 0
                  THEN [s \in (DOMAIN @) \ {state.stack[Len(state.stack)]} |-> @[s]]
                  ELSE @]

\* Push that gives the segment the depth of the one below it.
PushLevel(state, current) ==
    IF Len(state.stack) > 0
    THEN [state EXCEPT
             !.depth = @ @@ (current :> @[state.stack[Len(state.stack)]]),
             !.stack = Append(@, current)]
    ELSE state

\* depth.insert(current, depth[last] + 1) and stack.push(current), unless
\* the stack is empty.
Push(state, current) ==
    IF Len(state.stack) > 0
    THEN [state EXCEPT
             !.depth = @ @@ (current :> @[state.stack[Len(state.stack)]] + 1),
             !.stack = Append(@, current)]
    ELSE state

\* The vertices of the stack above the depth of `current`, made a polygon
\* and inserted into paths.
ClosePath(state, current) ==
    [state EXCEPT
        !.paths = InsertPolygon(@, PolygonFrom(
            [i \in 1..(Len(state.stack) - state.depth[current]) |->
                state.stack[state.depth[current] + i][1]])),
        !.result = "PathClosing"]

\* SegmentGraph::traverse.  `state` holds stack, depth and paths, and the
\* TraversalResult of the last call.  In the third branch `successor` is the
\* result of min_by and `returned` the state when the inner call, if there
\* is one, has returned; the last three lines are stack.pop(),
\* depth.remove(&segment) and the result Exploring.
RECURSIVE traverse(_, _, _, _, _)
traverse(graph, current, previous, criterion, state) ==
    IF << current[2], current[1] >> \in DOMAIN state.depth
    THEN [state EXCEPT !.result = "Backtracking"]
    ELSE IF current \in DOMAIN state.depth
    THEN ClosePath(state, current)
    ELSE LET successor == Elect(graph, criterion, previous, current)
             returned == IF successor # None
                         THEN traverse(graph, successor[1], current, criterion,
                                       Push(state, current))
                         ELSE Push(state, current)
         IN  [returned EXCEPT
                 !.stack = IF Len(@) > 0 THEN SubSeq(@, 1, Len(@) - 1) ELSE @,
                 !.depth = IF Len(returned.stack) > 0
                           THEN [s \in (DOMAIN @) \ {returned.stack[Len(returned.stack)]} |-> @[s]]
                           ELSE @,
                 !.result = "Exploring"]

\* The loop `for successor in successors` under one criterion.
RECURSIVE TraverseEach(_, _, _, _, _)
TraverseEach(graph, source, successors, criterion, state) ==
    IF Evaluated(state) /\ Len(successors) = 0 THEN state
    ELSE TraverseEach(graph, source, Tail(successors), criterion,
             traverse(graph, Head(successors), source, criterion, state))

\* Root that pushes the source twice.
RootTwice(state, source) ==
    [state EXCEPT !.depth = @ @@ (source :> 0), !.stack = Append(Append(@, source), source)]

\* depth.insert(source, 0) and stack.push(source).
Root(state, source) ==
    [state EXCEPT !.depth = @ @@ (source :> 0), !.stack = Append(@, source)]

\* The two loops over the successors of a source.
TraverseBoth(graph, source, successors, state) ==
    TraverseEach(graph, source, successors, CoplanarityFirst,
        TraverseEach(graph, source, successors, ThetaFirst, state))

\* The body of `for (source, successors) in &self.adjacencies`.
SegmentSource(graph, source, state) ==
    Pop(TraverseBoth(graph, source, IterSegments(graph[source]), Root(state, source)))

\* The loop over the sources.
RECURSIVE SegmentSources(_, _, _)
SegmentSources(graph, sources, state) ==
    IF Evaluated(state) /\ Len(sources) = 0 THEN state
    ELSE SegmentSources(graph, Tail(sources),
             SegmentSource(graph, Head(sources), state))

\* SegmentGraph::segment.
segment(graph) ==
    SegmentSources(graph, IterSegments(DOMAIN graph),
        [stack |-> << >>, depth |-> << >>, paths |-> {}, result |-> "None"]).paths

(***************************************************************************)
(* polygon.rs: filter.                                                     *)
(***************************************************************************)
\* Select with every polygon accepted.
Keep(polygons, mask, i) == mask \cup {i}

\* The body of the loop 'selection for the polygon at index i.
Select(polygons, mask, i) ==
    IF \E j \in mask : /\ contains(polygons[i], polygons[j])
                       /\ shares_sides_with(polygons[i], polygons[j])
    THEN mask
    ELSE mask \cup {i}

RECURSIVE Selection(_, _, _)
Selection(polygons, mask, i) ==
    IF Evaluated(mask) /\ i > Len(polygons) THEN mask
    ELSE Selection(polygons, Select(polygons, mask, i), i + 1)

\* Whether a polygon passes the threshold (given in hundredths).
LargeEnough(polygon, minimum) == 50 * area_projected(polygon) >= minimum

\* The polygons at the indices of `mask`, in the order of `sorted`.
Taken(sorted, mask) ==
    SelectSeq(sorted, LAMBDA polygon : \E i \in mask : sorted[i] = polygon)

\* The loop 'selection over the sorted polygons.
Accepted(sorted) == Taken(sorted, Selection(sorted, {}, 1))

\* filter without its first step: no polygon is discarded for its area.
FilterAnyArea(polygons, minimum) == Accepted(SortByKey(polygons, area))

\* polygon::filter.
filter(polygons, minimum) ==
    Accepted(SortByKey(
        SelectSeq(polygons, LAMBDA polygon : LargeEnough(polygon, minimum)), area))



(***************************************************************************)
(* The inputs.  The points are those of the tests `one` and `two` (two bays *)
(* of a roof, scaled by 2/5), an apex H above the first bay and an outlying *)
(* point G that no candidate segment touches.  At no point do two candidate *)
(* segments leave in the same xy direction, and none is vertical.           *)
(***************************************************************************)
A == << 0, 0, 0 >>
B == << 0, 4, 0 >>
C == << 4, 4, 2 >>
D == << 4, 0, 2 >>
E == << 8, 4, 0 >>
F == << 8, 0, 0 >>
G == << 9, 7, 3 >>
H == << 1, 2, 9 >>

Points == << A, B, C, D, E, F, G, H >>

\* The candidate segments: the seven of the test `two`, the diagonal of the
\* first bay and two segments to the apex.
Edges ==
    << <<A, B>>, <<B, C>>, <<C, D>>, <<D, A>>, <<C, E>>, <<E, F>>, <<F, D>>,
       <<A, C>>, <<A, H>>, <<B, H>> >>

\* The iteration orders a call may meet.
Orders == { Points, << D, C, G, E, H, F, B, A >> }

\* The thresholds, in hundredths: the tests' 0.01, and 10.
Thresholds == {1, 1000}

SegmentsOf(chosen) ==
    LET indices == SelectSeq([i \in 1..Len(Edges) |-> i], LAMBDA i : i \in chosen)
    IN  [i \in 1..Len(indices) |-> Edges[indices[i]]]

\* The end points of a list of segments.
Vertices(list) == { list[i][1] : i \in DOMAIN list } \cup { list[i][2] : i \in DOMAIN list }

\* The dead ends of a list of segments: the points with one neighbour.
DeadEnds(list) ==
    { p \in Vertices(list) :
        Cardinality({ q \in Vertices(list) :
            \E i \in DOMAIN list : list[i] = <<p, q>> \/ list[i] = <<q, p>> }) = 1 }

\* The largest number of candidate segments of an input.
MaxSegments == 8

\* The largest number of dead ends of an input of the whole pipeline.
MaxLeaves == 1

\* The inputs of the whole pipeline: the sets of at most MaxSegments
\* candidate segments with at most MaxLeaves dead ends.
Inputs ==
    { list \in { SegmentsOf(chosen) :
                    chosen \in { c \in SUBSET (1..Len(Edges)) : Cardinality(c) <= MaxSegments } } :
        Cardinality(DeadEnds(list)) <= MaxLeaves }

\* The segments in the opposite order, every other one reversed, the first
\* one repeated at the end.
Rearranged(list) ==
    LET flipped == [i \in 1..Len(list) |->
                       IF i % 2 = 1 THEN << list[i][2], list[i][1] >> ELSE list[i]]
    IN  IF Len(list) = 0 THEN list ELSE Append(Reverse(flipped), list[1])

\* The inputs of the graph stage: the sets of at most MaxSegments candidate
\* segments, as listed and rearranged.
GraphInputs ==
    UNION { { SegmentsOf(chosen), Rearranged(SegmentsOf(chosen)) } :
            chosen \in { c \in SUBSET (1..Len(Edges)) : Cardinality(c) <= MaxSegments } }

\* How the second call of polygonalize differs from the first: in
\* `parallelize`, in the order, direction and repetition of the segments, or
\* in one more segment to a new point.
Variants == { "mode", "rearrange", "dangle" }


(***************************************************************************)
(* The calls of polygonalize.                                              *)
(***************************************************************************)
\* No vertex list has been given to Polygon::from and no traversal is under way.
Idle ==
    /\ path = << >>
    /\ made = {}
    /\ component = << >>
    /\ segment_graph = << >>
    /\ traversal = << >>
    /\ frames = << >>
    /\ loop = << >>
    /\ bridge = << >>

Init ==
    /\ Idle
    /\ segments \in Inputs
    /\ parallelize \in BOOLEAN
    /\ minimum_area_projected \in Thresholds
    /\ order \in Orders
    /\ pc = "construct"
    /\ adjacencies = << >>
    /\ leaves = {}
    /\ explored = {}
    /\ cursor = 0
    /\ partitions = {}
    /\ emitted = << >>
    /\ paths = {}
    /\ output = << >>
    /\ call = 1
    /\ variant = "none"
    /\ first = << >>

\* Pipeline::from, first half: construct_adjacency_list_of_points.
Construct ==
    /\ UNCHANGED steps
    /\ pc = "construct"
    /\ adjacencies' = construct_adjacency_list_of_points(segments, << >>)
    /\ pc' = "leaves"
    /\ UNCHANGED << segments, parallelize, minimum_area_projected, order, leaves,
                    explored, cursor, partitions, emitted, paths, output, call,
                    variant, first >>

\* prune_adjacency_list_of_points: the detection of the leaves.
Leaves ==
    /\ UNCHANGED steps
    /\ pc = "leaves"
    /\ leaves' = DetectLeaves(adjacencies)
    /\ pc' = "prune"
    /\ UNCHANGED << segments, parallelize, minimum_area_projected, order,
                    adjacencies, explored, cursor, partitions, emitted, paths,
                    output, call, variant, first >>

\* prune_adjacency_list_of_points: one round of the loop.
Prune ==
    /\ UNCHANGED steps
    /\ pc = "prune"
    /\ leaves # {}
    /\ LET next == PruneRound(adjacencies, leaves)
       IN  /\ adjacencies' = next.adjacencies
           /\ leaves' = next.updated
    /\ UNCHANGED << segments, parallelize, minimum_area_projected, order, pc,
                    explored, cursor, partitions, emitted, paths, output, call,
                    variant, first >>

\* prune_adjacency_list_of_points returns; polygonalize takes the sequential
\* pipeline or partitions it.
Pruned ==
    /\ UNCHANGED steps
    /\ pc = "prune"
    /\ leaves = {}
    /\ pc' = IF parallelize THEN "partition" ELSE "apply"
    /\ UNCHANGED << segments, parallelize, minimum_area_projected, order,
                    adjacencies, leaves, explored, cursor, partitions, emitted,
                    paths, output, call, variant, first >>

\* Pipeline::apply with polygonalize's closure: one segment graph, one
\* traversal, one filter.
Apply ==
    /\ UNCHANGED steps
    /\ pc = "apply"
    /\ paths' = segment(build_segment_graph_from_adjacency_list_of_points(None, adjacencies))
    /\ output' = filter(IterPolygons(paths'), minimum_area_projected)
    /\ pc' = "done"
    /\ UNCHANGED << segments, parallelize, minimum_area_projected, order,
                    adjacencies, leaves, explored, cursor, partitions, emitted,
                    call, variant, first >>

\* NextUnexplored with the explored keys not skipped.
NextKey(keys, from, seen) == IF from < Len(keys) THEN from + 1 ELSE 0

\* The first key at an index above `from` that is not explored yet, or 0.
NextUnexplored(keys, from, seen) ==
    LET open == { i \in (from + 1)..Len(keys) : keys[i] \notin seen }
    IN  IF open = {} THEN 0 ELSE Min(open)

\* PartitionPipeline::apply: one call of next() on keys().filter_map(..),
\* which skips the explored keys and explores the component of the first
\* unexplored one.
Discover ==
    /\ UNCHANGED steps
    /\ pc = "partition"
    /\ LET keys == IterPoints(DOMAIN adjacencies)
           i == NextUnexplored(keys, cursor, explored)
       IN  /\ cursor < Len(keys)
           /\ IF i = 0
              THEN /\ cursor' = Len(keys)
                   /\ UNCHANGED << explored, partitions, emitted >>
              ELSE LET found == explore(adjacencies, keys[i],
                                    [explored |-> explored, partition |-> {}])
                   IN  /\ cursor' = i
                       /\ explored' = found.explored
                       /\ partitions' = partitions \cup {found.partition}
                       /\ emitted' = Append(emitted, found.partition)
    /\ UNCHANGED << segments, parallelize, minimum_area_projected, order, pc,
                    adjacencies, leaves, paths, output, call, variant, first >>

\* The polygons of one component are filtered and join the collected Vec.
Collected(polygons) ==
    /\ paths' = paths \cup polygons
    /\ output' = output \o filter(IterPolygons(polygons), minimum_area_projected)

\* PartitionPipeline::apply: a worker runs polygonalize's closure on the
\* segment graph of one component; its polygons join the collected Vec.
Task ==
    /\ UNCHANGED steps
    /\ pc = "partition"
    /\ \E partition \in partitions :
          /\ Collected(segment(build_segment_graph_from_adjacency_list_of_points(
                                   Some(partition), adjacencies)))
          /\ partitions' = partitions \ {partition}
    /\ UNCHANGED << segments, parallelize, minimum_area_projected, order, pc,
                    adjacencies, leaves, explored, cursor, emitted, call,
                    variant, first >>

\* PartitionPipeline::apply returns the collected Vec.
Collect ==
    /\ UNCHANGED steps
    /\ pc = "partition"
    /\ cursor = Len(IterPoints(DOMAIN adjacencies))
    /\ partitions = {}
    /\ pc' = "done"
    /\ UNCHANGED << segments, parallelize, minimum_area_projected, order,
                    adjacencies, leaves, explored, cursor, partitions, emitted,
                    paths, output, call, variant, first >>

\* The caller, after a sequential call, calls polygonalize a second time,
\* with arguments that differ from the first call's as `variant` says; the
\* hash collections of the second call have an iteration order of their own.
Again ==
    /\ UNCHANGED steps
    /\ pc = "done"
    /\ call = 1
    /\ ~parallelize
    /\ \E kind \in Variants, next \in Orders :
          /\ kind = "dangle" => Len(segments) > 0
          /\ variant' = kind
          /\ order' = next
          /\ segments' =
                IF kind = "rearrange" THEN Rearranged(segments)
                ELSE IF kind = "dangle"
                THEN Append(segments,
                         << SelectSeq(next, LAMBDA p : p \in Vertices(segments))[1], G >>)
                ELSE segments
          /\ parallelize' = IF kind = "mode" THEN ~parallelize ELSE parallelize
    /\ first' = [ segments |-> segments, parallelize |-> parallelize,
                  order |-> order, adjacencies |-> adjacencies,
                  paths |-> paths, output |-> output ]
    /\ call' = 2
    /\ pc' = "construct"
    /\ adjacencies' = << >>
    /\ leaves' = {}
    /\ explored' = {}
    /\ cursor' = 0
    /\ partitions' = {}
    /\ emitted' = << >>
    /\ paths' = {}
    /\ output' = << >>
    /\ UNCHANGED minimum_area_projected

Next ==
    \/ Construct
    \/ Leaves
    \/ Prune
    \/ Pruned
    \/ Apply
    \/ Discover
    \/ Task
    \/ Collect
    \/ Again

Spec == Init /\ [][Next]_vars

(***************************************************************************)
(* The graph stage alone: the point graph is built and pruned and its      *)
(* components are discovered, for every input of GraphInputs.              *)
(***************************************************************************)
InitGraph ==
    /\ Idle
    /\ segments \in GraphInputs
    /\ parallelize = TRUE
    /\ minimum_area_projected = 1
    /\ order \in Orders
    /\ pc = "construct"
    /\ adjacencies = << >>
    /\ leaves = {}
    /\ explored = {}
    /\ cursor = 0
    /\ partitions = {}
    /\ emitted = << >>
    /\ paths = {}
    /\ output = << >>
    /\ call = 1
    /\ variant = "none"
    /\ first = << >>

NextGraph ==
    \/ Construct
    \/ Leaves
    \/ Prune
    \/ Pruned
    \/ Discover

SpecGraph == InitGraph /\ [][NextGraph]_vars

\* A round of the pruning loop is about to be executed: the leaf set is not
\* empty.
RoundEntered == pc = "prune" /\ leaves # {}

\* The same run where prune_adjacency_list_of_points runs on a thread that
\* does not stop: a round that can be executed is executed, and the function
\* returns when its loop is over.  For Prune, weak fairness is written with
\* its guard for ENABLED: a round can be executed exactly when RoundEntered.
SpecPruning ==
    /\ SpecGraph
    /\ WF_vars(Pruned)
    /\ ([]<>~RoundEntered \/ []<><<Prune>>_vars)

(***************************************************************************)
(* Polygon::from alone: a vertex list is made a polygon and inserted into  *)
(* a HashSet<Polygon>, then rotated, reversed or changed in one vertex and *)
(* made a polygon again, MaxMade times in all.                             *)
(***************************************************************************)
\* The longest vertex list whose every filling is tried.
MaxVertices == 3

\* The most vertex lists made polygons in one run.
MaxMade == 2

\* The points the vertex lists are filled with.
Corners == { A, B, C, D, H }

\* The vertex lists: every list of one to MaxVertices corners, and the path
\* through A twice that the traversal closes on two triangles that meet in A.
\* The empty list is not among them: on it Polygon::from does not return,
\* plane::center slices vertices[1..] of it and panics.
VertexLists ==
    UNION { [1..n -> Corners] : n \in 1..MaxVertices } \cup { << A, D, C, A, H, B >> }

InitPolygon ==
    /\ path \in VertexLists
    /\ made = {}
    /\ component = << >>
    /\ segment_graph = << >>
    /\ traversal = << >>
    /\ frames = << >>
    /\ loop = << >>
    /\ bridge = << >>
    /\ segments = << >>
    /\ parallelize = FALSE
    /\ minimum_area_projected = 1
    /\ order = Points
    /\ pc = "from"
    /\ adjacencies = << >>
    /\ leaves = {}
    /\ explored = {}
    /\ cursor = 0
    /\ partitions = {}
    /\ emitted = << >>
    /\ paths = {}
    /\ output = << >>
    /\ call = 1
    /\ variant = "none"
    /\ first = << >>

\* What Polygon::from and the HashSet leave alone.
Apart == << segments, parallelize, minimum_area_projected, order, pc,
            adjacencies, leaves, explored, cursor, partitions, emitted,
            output, call, variant, first, component, segment_graph, traversal,
            frames, loop, bridge >>

\* paths.insert(Polygon::from(vertices)).
From ==
    /\ pc = "from"
    /\ Cardinality(made) < MaxMade
    /\ \A m \in made : m.vertices # path
    /\ made' = made \cup { [vertices |-> path, polygon |-> PolygonFrom(path)] }
    /\ paths' = InsertPolygon(paths, PolygonFrom(path))
    /\ UNCHANGED << path, Apart >>

\* The vertex list has been made a polygon.
Made == \E m \in made : m.vertices = path

\* The caller rotates the vertex list by some places.
Rotate ==
    /\ pc = "from"
    /\ Made
    /\ \E shift \in 1..(Len(path) - 1) :
          path' = [i \in 1..Len(path) |-> path[((i - 1 + shift) % Len(path)) + 1]]
    /\ UNCHANGED << made, paths, Apart >>

\* The caller reverses the vertex list.
Flip ==
    /\ pc = "from"
    /\ Made
    /\ path' = Reverse(path)
    /\ UNCHANGED << made, paths, Apart >>

\* The caller puts the point G in the place of the first vertex.
Replace ==
    /\ pc = "from"
    /\ Made
    /\ G \notin Range(path)
    /\ path' = [path EXCEPT ![1] = G]
    /\ UNCHANGED << made, paths, Apart >>

NextPolygon ==
    \/ From
    \/ Rotate
    \/ Flip
    \/ Replace

SpecPolygon == InitPolygon /\ [][NextPolygon]_vars

(***************************************************************************)
(* SegmentGraph::segment step by step.  polygonalize runs as before up to  *)
(* the pruned point graph and its components; then the segment graph of    *)
(* the whole graph or of one component is built, and segment() and its     *)
(* recursive traverse() run one statement at a time: `loop` is the place   *)
(* in the loops of segment(), `frames` the calls of traverse() that have   *)
(* not returned, the innermost last.  A frame records the stack and depth  *)
(* it was entered with; `loop` counts the calls segment() has made of      *)
(* traverse() (calls) and the calls of traverse() since the last of them,  *)
(* itself included (steps).                                                *)
(***************************************************************************)
\* The most segments of an input that is traversed step by step.
MaxTraversed == 7

\* The inputs traversed step by step.
Traversed == { list \in Inputs : Len(list) <= MaxTraversed }

InitSegment ==
    /\ Idle
    /\ segments \in Traversed
    /\ parallelize \in BOOLEAN
    /\ minimum_area_projected = 1
    /\ order \in Orders
    /\ pc = "construct"
    /\ adjacencies = << >>
    /\ leaves = {}
    /\ explored = {}
    /\ cursor = 0
    /\ partitions = {}
    /\ emitted = << >>
    /\ paths = {}
    /\ output = << >>
    /\ call = 1
    /\ variant = "none"
    /\ first = << >>

\* What no statement of segment() and of the closure around it changes.
Fixed == << segments, parallelize, minimum_area_projected, order, adjacencies,
            leaves, explored, cursor, emitted, call, variant, first, path, made,
            bridge >>

\* What the statements inside segment() leave alone.
Around == << Fixed, pc, partitions, paths, output, component, segment_graph >>

\* stack, depth and paths as segment() declares them.
Fresh == [stack |-> << >>, depth |-> << >>, paths |-> {}, result |-> "None"]

\* A call of traverse(current, previous, ..) that has just been entered.
Frame(current, previous) ==
    [ current |-> current, previous |-> previous, at |-> "entry",
      entered |-> [stack |-> traversal.stack, depth |-> traversal.depth] ]

\* The innermost call of traverse.
Top == frames[Len(frames)]

\* Pipeline::apply, or one task of PartitionPipeline::apply: the segment
\* graph is built and handed to the closure, which calls segment().
Build ==
    /\ \/ /\ pc = "apply"
          /\ component' = None
          /\ UNCHANGED partitions
       \/ /\ pc = "partition"
          /\ \E partition \in partitions :
                /\ component' = Some(partition)
                /\ partitions' = partitions \ {partition}
    /\ segment_graph' =
           build_segment_graph_from_adjacency_list_of_points(component', adjacencies)
    /\ traversal' = Fresh
    /\ frames' = << >>
    /\ loop' = [ at |-> "sources",
                 sources |-> IterSegments(DOMAIN segment_graph'),
                 source |-> None,
                 pass |-> ThetaFirst,
                 successors |-> << >>,
                 called |-> {},
                 calls |-> 0,
                 steps |-> 0 ]
    /\ pc' = "segment"
    /\ UNCHANGED << Fixed, paths, output >>

\* `for (source, successors) in &self.adjacencies`: the next source is put
\* at the base of the stack.
NextSource ==
    /\ pc = "segment"
    /\ loop.at = "sources"
    /\ Len(loop.sources) > 0
    /\ traversal' = Root(traversal, Head(loop.sources))
    /\ loop' = [loop EXCEPT !.at = "successors",
                            !.source = Head(loop.sources),
                            !.sources = Tail(loop.sources),
                            !.pass = ThetaFirst,
                            !.successors = IterSegments(segment_graph[Head(loop.sources)])]
    /\ UNCHANGED << frames, Around >>

\* The loop over the sources is over: segment() returns paths.
Finish ==
    /\ pc = "segment"
    /\ loop.at = "sources"
    /\ Len(loop.sources) = 0
    /\ pc' = "filter"
    /\ UNCHANGED << Fixed, partitions, paths, output, component, segment_graph,
                    traversal, frames, loop >>

\* `for successor in successors`: self.traverse(successor, source, ..).
Call ==
    /\ pc = "segment"
    /\ loop.at = "successors"
    /\ Len(loop.successors) > 0
    /\ frames' = << Frame(Head(loop.successors), loop.source) >>
    /\ loop' = [loop EXCEPT !.at = "traverse",
                            !.successors = Tail(loop.successors),
                            !.called = @ \cup { << loop.source, Head(loop.successors), loop.pass >> },
                            !.calls = @ + 1,
                            !.steps = 1]
    /\ UNCHANGED << traversal, Around >>

\* The first loop over the successors is over and no second one follows: the
\* source is removed from the stack.
SinglePass ==
    /\ pc = "segment"
    /\ loop.at = "successors"
    /\ Len(loop.successors) = 0
    /\ loop.pass = ThetaFirst
    /\ traversal' = [traversal EXCEPT !.stack = SubSeq(@, 1, Len(@) - 1)]
    /\ loop' = [loop EXCEPT !.at = "sources"]
    /\ UNCHANGED << frames, Around >>

\* The first loop over the successors is over: the second one begins.
SecondPass ==
    /\ pc = "segment"
    /\ loop.at = "successors"
    /\ Len(loop.successors) = 0
    /\ loop.pass = ThetaFirst
    /\ loop' = [loop EXCEPT !.pass = CoplanarityFirst,
                            !.successors = IterSegments(segment_graph[loop.source])]
    /\ UNCHANGED << traversal, frames, Around >>

\* The second loop is over: the source is removed from the stack.
PopSource ==
    /\ pc = "segment"
    /\ loop.at = "successors"
    /\ Len(loop.successors) = 0
    /\ loop.pass = CoplanarityFirst
    /\ traversal' = Pop(traversal)
    /\ loop' = [loop EXCEPT !.at = "sources"]
    /\ UNCHANGED << frames, Around >>

\* Retraced that never holds.
NeverRetraced(state, current) == FALSE

\* depth.contains_key(&(current.1, current.0)).
Retraced(state, current) == << current[2], current[1] >> \in DOMAIN state.depth

\* A call of traverse returns: its frame is dropped, and when it was the call
\* made by segment(), the loop over the successors goes on.
Leave ==
    /\ frames' = SubSeq(frames, 1, Len(frames) - 1)
    /\ loop' = IF Len(frames) = 1 THEN [loop EXCEPT !.at = "successors"] ELSE loop

\* traverse, first branch: the segment is on the stack in the opposite
\* sense; the call returns Backtracking.
Backtrack ==
    /\ pc = "segment"
    /\ loop.at = "traverse"
    /\ Top.at = "entry"
    /\ Retraced(traversal, Top.current)
    /\ traversal' = [traversal EXCEPT !.result = "Backtracking"]
    /\ Leave
    /\ UNCHANGED Around

\* traverse, second branch: the segment is on the stack; the path from it on
\* is inserted into paths and the call returns PathClosing.
Close ==
    /\ pc = "segment"
    /\ loop.at = "traverse"
    /\ Top.at = "entry"
    /\ ~Retraced(traversal, Top.current)
    /\ Top.current \in DOMAIN traversal.depth
    /\ traversal' = ClosePath(traversal, Top.current)
    /\ Leave
    /\ UNCHANGED Around

\* traverse, third branch: the segment is pushed onto the stack.
Explore ==
    /\ pc = "segment"
    /\ loop.at = "traverse"
    /\ Top.at = "entry"
    /\ ~Retraced(traversal, Top.current)
    /\ Top.current \notin DOMAIN traversal.depth
    /\ traversal' = Push(traversal, Top.current)
    /\ frames' = [frames EXCEPT ![Len(frames)].at = "pushed"]
    /\ UNCHANGED << loop, Around >>

\* traverse, third branch: self.adjacencies[current] is looked up, which
\* panics when `current` is no key; the successor that minimises the
\* criterion is taken and traverse is called on it.
Recur ==
    /\ pc = "segment"
    /\ loop.at = "traverse"
    /\ Top.at = "pushed"
    /\ IF Top.current \in DOMAIN segment_graph
       THEN LET successor == Elect(segment_graph, loop.pass, Top.previous, Top.current)
            IN  /\ frames' =
                      IF successor # None
                      THEN Append([frames EXCEPT ![Len(frames)].at = "called"],
                                  Frame(successor[1], Top.current))
                      ELSE [frames EXCEPT ![Len(frames)].at = "popping"]
                /\ loop' = IF successor # None
                           THEN [loop EXCEPT !.steps = @ + 1]
                           ELSE loop
                /\ UNCHANGED pc
       ELSE /\ pc' = "panic"
            /\ UNCHANGED << frames, loop >>
    /\ UNCHANGED << traversal, Fixed, partitions, paths, output, component,
                    segment_graph >>

\* traverse, third branch: the inner call, if there was one, has returned;
\* the segment is popped and the call returns Exploring.
Unwind ==
    /\ pc = "segment"
    /\ loop.at = "traverse"
    /\ Top.at \in {"called", "popping"}
    /\ traversal' = [Pop(traversal) EXCEPT !.result = "Exploring"]
    /\ Leave
    /\ UNCHANGED Around

\* polygonalize's closure: the polygons segment() returned are collected
\* into a Vec and filtered.
Filter ==
    /\ pc = "filter"
    /\ Collected(traversal.paths)
    /\ pc' = IF parallelize THEN "partition" ELSE "done"
    /\ UNCHANGED << Fixed, partitions, component, segment_graph, traversal,
                    frames, loop >>

NextSegment ==
    \/ Construct
    \/ Leaves
    \/ Prune
    \/ Pruned
    \/ Discover
    \/ Build
    \/ NextSource
    \/ Finish
    \/ Call
    \/ SecondPass
    \/ PopSource
    \/ Backtrack
    \/ Close
    \/ Explore
    \/ Recur
    \/ Unwind
    \/ Filter
    \/ Collect

SpecSegment == InitSegment /\ [][NextSegment]_vars

\* Before the call of polygonalize: its arguments are not yet chosen.
InitSequential ==
    /\ Idle
    /\ segments = << >>
    /\ parallelize = FALSE
    /\ minimum_area_projected = 1
    /\ order = Points
    /\ pc = "call"
    /\ adjacencies = << >>
    /\ leaves = {}
    /\ explored = {}
    /\ cursor = 0
    /\ partitions = {}
    /\ emitted = << >>
    /\ paths = {}
    /\ output = << >>
    /\ call = 1
    /\ variant = "none"
    /\ first = << >>

\* polygonalize is called on some segments, in one of its two modes.
Polygonalize ==
    /\ pc = "call"
    /\ segments' \in Traversed
    /\ parallelize' \in BOOLEAN
    /\ order' \in Orders
    /\ pc' = "construct"
    /\ UNCHANGED << minimum_area_projected, adjacencies, leaves, explored, cursor,
                    partitions, emitted, paths, output, call, variant, first, steps >>

NextSequential ==
    \/ Polygonalize
    \/ NextSegment

\* traverse is running and its innermost call is at the place `at`.
Inside(at) == pc = "segment" /\ loop.at = "traverse" /\ Top.at = at

\* The innermost call of traverse has been entered and will take the second
\* branch: it closes a path and emits a polygon.
AboutToClose ==
    /\ Inside("entry")
    /\ ~Retraced(traversal, Top.current)
    /\ Top.current \in DOMAIN traversal.depth

\* The statements of segment() and of traverse(), but for the closing of a
\* path and for the recursive call.
Statement ==
    \/ NextSource
    \/ Finish
    \/ Call
    \/ SecondPass
    \/ PopSource
    \/ Backtrack
    \/ Explore
    \/ Unwind

\* The same run from its call on, where segment() runs on a thread that never
\* stops between two statements: a statement that can be executed is
\* executed.  For Close and for Recur, weak fairness is written with their
\* guards for ENABLED: Close can be executed exactly when AboutToClose, and
\* Recur exactly when the innermost call has pushed its segment.
SpecSequential ==
    /\ InitSequential
    /\ [][NextSequential]_vars
    /\ WF_vars(Statement)
    /\ ([]<>~AboutToClose \/ []<><<Close>>_vars)
    /\ ([]<>~Inside("pushed") \/ []<><<Recur>>_vars)

(***************************************************************************)
(* Notions the properties are stated with.                                 *)
(***************************************************************************)
\* prune_adjacency_list_of_points has returned.
PruneReturned == pc \in {"apply", "partition", "done"}

\* The point graph of the segments, before pruning.
PointGraph == construct_adjacency_list_of_points(segments, << >>)

\* The points reachable from the points of `set` along the edges of `map`.
RECURSIVE Closure(_, _)
Closure(map, set) ==
    IF (UNION { map[p] : p \in set }) \subseteq set THEN set
    ELSE Closure(map, set \cup UNION { map[p] : p \in set })

Reachable(map, p) == Closure(map, {p})

\* The keys() iterator of the discovery is exhausted.
DiscoveryDone ==
    /\ pc \in {"partition", "done"}
    /\ parallelize
    /\ cursor = Len(IterPoints(DOMAIN adjacencies))

(***************************************************************************)
(* C4.  After prune_adjacency_list_of_points has returned, no remaining     *)
(* vertex has degree 1: every key has at least two neighbours that are     *)
(* keys themselves.                                                        *)
(***************************************************************************)
NoLeafAfterPrune ==
    PruneReturned =>
        \A p \in DOMAIN adjacencies :
            Cardinality(adjacencies[p] \cap DOMAIN adjacencies) >= 2

\* A cascade: a point that was no dead end of the input has been pruned,
\* and a part of the graph remains.
CascadePruned ==
    /\ PruneReturned
    /\ DOMAIN adjacencies # {}
    /\ \E p \in Vertices(segments) \ DOMAIN adjacencies : p \notin DeadEnds(segments)

(***************************************************************************)
(* C10.  Pruning is idempotent: the pruned graph is prune(G) for the point *)
(* graph G of the segments, and pruning it again leaves its keys and its   *)
(* adjacency sets as they are.                                             *)
(***************************************************************************)
PruneIdempotent ==
    PruneReturned =>
        /\ adjacencies = prune_adjacency_list_of_points(PointGraph)
        /\ prune_adjacency_list_of_points(adjacencies) = adjacencies

\* Pruning has removed some points and left others.
PartlyPruned ==
    /\ PruneReturned
    /\ DOMAIN adjacencies # {}
    /\ DOMAIN adjacencies # DOMAIN PointGraph

(***************************************************************************)
(* C5.  The sets the component discovery emits are non-empty, each is the  *)
(* connected component of each of its points, every point is in at most    *)
(* one of them, and once the discovery is done every point of the pruned   *)
(* graph is in one of them.                                                *)
(***************************************************************************)
ComponentsPartition ==
    pc \in {"partition", "done"} =>
        /\ \A i \in DOMAIN emitted :
              /\ emitted[i] # {}
              /\ emitted[i] \subseteq DOMAIN adjacencies
              /\ \A p \in emitted[i] : emitted[i] = Reachable(adjacencies, p)
        /\ \A i, j \in DOMAIN emitted : i # j => emitted[i] \cap emitted[j] = {}
        /\ DiscoveryDone => UNION Range(emitted) = DOMAIN adjacencies

\* The discovery is done and has emitted two components.
TwoComponents ==
    /\ DiscoveryDone
    /\ Len(emitted) = 2

\* polygonalize has returned.
Returned == pc = "done"

\* The vertex sets of a list of polygons.
VertexSets(polygons) == { polygons[i].set : i \in DOMAIN polygons }

\* A closed vertex sequence v0..v(k-1),v0 with k >= 3 and v0..v(k-1)
\* pairwise distinct.
Simple(sequence) ==
    /\ Len(sequence) >= 4
    /\ sequence[Len(sequence)] = sequence[1]
    /\ \A i, j \in 1..(Len(sequence) - 1) : i # j => sequence[i] # sequence[j]

(***************************************************************************)
(* C1.  Every polygon polygonalize returns has a vertex sequence           *)
(* v0..v(k-1),v0 with k >= 3 and v0..v(k-1) pairwise distinct.             *)
(***************************************************************************)
OutputSimple ==
    Returned => \A i \in DOMAIN output : Simple(output[i].sequence)

(***************************************************************************)
(* C2, as claimed.  For every two distinct polygons P and Q of the output, *)
(* P.contains(Q) and P.shares_sides_with(Q) do not both hold, in either    *)
(* order of the pair.                                                      *)
(***************************************************************************)
NoDominanceEitherWay ==
    Returned =>
        \A i, j \in DOMAIN output :
            i # j => ~(/\ contains(output[i], output[j])
                       /\ shares_sides_with(output[i], output[j]))

(***************************************************************************)
(* C2, amended.  For every polygon P of the output and every polygon Q     *)
(* that precedes it in the output (Q was accepted before P),               *)
(* P.contains(Q) and P.shares_sides_with(Q) do not both hold.              *)
(***************************************************************************)
NoDominanceOverEarlier ==
    Returned =>
        \A i, j \in DOMAIN output :
            i < j => ~(/\ contains(output[j], output[i])
                       /\ shares_sides_with(output[j], output[i]))

\* The filter has dropped a polygon that passes the threshold, because it
\* contains an accepted polygon and shares a side with it.
DominatingDropped ==
    /\ Returned
    /\ \E q \in paths :
          /\ LargeEnough(q, minimum_area_projected)
          /\ q.set \notin VertexSets(output)
          /\ \E i \in DOMAIN output :
                contains(q, output[i]) /\ shares_sides_with(q, output[i])

(***************************************************************************)
(* C3.  polygonalize with parallelize = true returns the same set of       *)
(* polygons, compared by vertex set, as with parallelize = false on the    *)
(* same segments and threshold.                                            *)
(***************************************************************************)
SameSetInBothModes ==
    (Returned /\ call = 2 /\ variant = "mode") =>
        VertexSets(output) = VertexSets(first.output)

(***************************************************************************)
(* C8.  Permuting the segments, reversing segments and repeating a segment *)
(* leaves the set of polygons, compared by vertex set, unchanged, whatever *)
(* the iteration order of the maps and sets.                               *)
(***************************************************************************)
SameSetWhenRearranged ==
    (Returned /\ call = 2 /\ variant = "rearrange") =>
        VertexSets(output) = VertexSets(first.output)

(***************************************************************************)
(* C9.  Appending a segment from an existing vertex to a new vertex leaves *)
(* the pruned point graph and the set of polygons, compared by vertex set, *)
(* unchanged.                                                              *)
(***************************************************************************)
SameAfterDangling ==
    (Returned /\ call = 2 /\ variant = "dangle") =>
        /\ adjacencies = first.adjacencies
        /\ VertexSets(output) = VertexSets(first.output)

\* The graph `map` within the points of `set`.
Within(map, set) == [p \in set |-> map[p] \cap set]

\* `map` is a single simple cycle: it is connected and every point has two
\* neighbours.
SimpleCycle(map) ==
    /\ DOMAIN map # {}
    /\ \A p \in DOMAIN map :
          /\ Cardinality(map[p]) = 2
          /\ Reachable(map, p) = DOMAIN map

\* A walk along the edges of `map` that goes on from `walk` to points it has
\* not visited, as long as there is one.
RECURSIVE Trail(_, _)
Trail(map, walk) ==
    IF map[walk[Len(walk)]] \subseteq Range(walk) THEN walk
    ELSE Trail(map, Append(walk,
             CHOOSE q \in map[walk[Len(walk)]] : q \notin Range(walk)))

\* Twice the signed area that the closed walk encloses in the xy plane, from
\* its vertex number i on.
RECURSIVE Shoelace(_, _)
Shoelace(walk, i) ==
    IF i > Len(walk) THEN 0
    ELSE walk[i][1] * walk[(i % Len(walk)) + 1][2]
             - walk[(i % Len(walk)) + 1][1] * walk[i][2]
             + Shoelace(walk, i + 1)

\* The xy area of the simple cycle `map` is at least the threshold, which is
\* in hundredths.
CycleLargeEnough(map) ==
    50 * Abs(Shoelace(Trail(map, << CHOOSE p \in DOMAIN map : TRUE >>), 1))
        >= minimum_area_projected

(***************************************************************************)
(* C6.  When the pruned point graph is a single simple cycle whose         *)
(* projected area is at least the threshold, polygonalize returns exactly  *)
(* one polygon, its vertex set is the set of the cycle's points, and the   *)
(* traversals from every segment, in both directions and under both        *)
(* criteria, have left one polygon in the set of paths.                    *)
(***************************************************************************)
CycleReturnsOnePolygon ==
    (Returned /\ SimpleCycle(adjacencies) /\ CycleLargeEnough(adjacencies)) =>
        /\ Len(output) = 1
        /\ output[1].set = DOMAIN adjacencies
        /\ Cardinality(paths) = 1

\* The open box: the input has a dead end that is pruned away and a cycle of
\* four points remains and is returned.
OpenBoxReturned ==
    /\ Returned
    /\ SimpleCycle(adjacencies)
    /\ CycleLargeEnough(adjacencies)
    /\ Cardinality(DOMAIN adjacencies) = 4
    /\ DeadEnds(segments) # {}

\* The points with three neighbours.
Hubs(map) == { p \in DOMAIN map : Cardinality(map[p]) = 3 }

\* The parts into which `map` falls when its hubs are taken away.
Arms(map) ==
    { Reachable(Within(map, (DOMAIN map) \ Hubs(map)), p) :
          p \in (DOMAIN map) \ Hubs(map) }

\* `map` is two simple cycles that share exactly one edge: two hubs that
\* are neighbours, and two arms of points with two neighbours that each lead
\* from one hub to the other.
TwoCycles(map) ==
    /\ Cardinality(Hubs(map)) = 2
    /\ \A p \in DOMAIN map :
          /\ Cardinality(map[p]) \in {2, 3}
          /\ Reachable(map, p) = DOMAIN map
    /\ \A u, v \in Hubs(map) : u # v => u \in map[v]
    /\ Cardinality(Arms(map)) = 2
    /\ \A arm \in Arms(map) : \A u \in Hubs(map) : map[u] \cap arm # {}

\* The two cycles, as sets of points.
Cycles(map) == { arm \cup Hubs(map) : arm \in Arms(map) }

\* On which side of the line from u to v the point p lies in the xy plane.
Side(u, v, p) == (v[1] - u[1]) * (p[2] - u[2]) - (v[2] - u[2]) * (p[1] - u[1])

\* The two cycles lie side by side: one arm lies to the left of the shared
\* edge and the other to its right.
SideBySide(map) ==
    \E u, v \in Hubs(map) :
        /\ u # v
        /\ \E left, right \in Arms(map) :
              /\ \A p \in left : Side(u, v, p) > 0
              /\ \A p \in right : Side(u, v, p) < 0

\* The closed two-bay case.
TwoBays == Returned /\ TwoCycles(adjacencies) /\ SideBySide(adjacencies)

\* The output is the two cycles and nothing else.
BothCyclesReturned ==
    /\ Len(output) = 2
    /\ VertexSets(output) = Cycles(adjacencies)

MaxWorkers == 2

Workers == 1..MaxWorkers

\* A worker that holds no component.
Waiting == [at |-> "idle", partition |-> {}]

InitBridge ==
    /\ path = << >>
    /\ made = {}
    /\ component = << >>
    /\ segment_graph = << >>
    /\ traversal = << >>
    /\ frames = << >>
    /\ loop = << >>
    /\ bridge = [workers |-> [w \in Workers |-> Waiting], explorers |-> {}]
    /\ segments \in Inputs
    /\ parallelize = TRUE
    /\ minimum_area_projected = 1
    /\ order \in Orders
    /\ pc = "construct"
    /\ adjacencies = << >>
    /\ leaves = {}
    /\ explored = {}
    /\ cursor = 0
    /\ partitions = {}
    /\ emitted = << >>
    /\ paths = {}
    /\ output = << >>
    /\ call = 1
    /\ variant = "none"
    /\ first = << >>

\* What the workers leave alone.
Shared == << segments, parallelize, minimum_area_projected, order, pc,
             adjacencies, leaves, call, variant, first, path, made, component,
             segment_graph, traversal, frames, loop >>

\* A worker holds the lock of the bridge.
Locked == \E w \in Workers : bridge.workers[w].at = "next"

\* The iterator has returned None.
Exhausted == cursor = Len(IterPoints(DOMAIN adjacencies))

\* A worker with nothing to do takes the lock of the bridge.
Lock ==
    /\ pc = "partition"
    /\ ~Locked
    /\ ~Exhausted
    /\ \E w \in Workers :
          /\ bridge.workers[w].at = "idle"
          /\ bridge' = [bridge EXCEPT !.workers[w].at = "next"]
    /\ UNCHANGED << Shared, explored, cursor, partitions, emitted, paths, output >>

\* The worker that holds the lock calls next() on keys().filter_map(..):
\* the explored keys are skipped and the component of the first unexplored
\* one is explored; the worker releases the lock with that component, or
\* with nothing when no key is left.
Yield ==
    /\ pc = "partition"
    /\ \E w \in Workers :
          /\ bridge.workers[w].at = "next"
          /\ LET keys == IterPoints(DOMAIN adjacencies)
                 i == NextUnexplored(keys, cursor, explored)
             IN  IF i = 0
                 THEN /\ cursor' = Len(keys)
                      /\ bridge' = [bridge EXCEPT !.workers[w] = Waiting]
                      /\ UNCHANGED << explored, partitions, emitted >>
                 ELSE LET found == explore(adjacencies, keys[i],
                                       [explored |-> explored, partition |-> {}])
                      IN  /\ cursor' = i
                          /\ explored' = found.explored
                          /\ partitions' = partitions \cup {found.partition}
                          /\ emitted' = Append(emitted, found.partition)
                          /\ bridge' = [bridge EXCEPT
                                 !.workers[w] = [at |-> "task", partition |-> found.partition],
                                 !.explorers = @ \cup {w}]
    /\ UNCHANGED << Shared, paths, output >>

\* A worker runs the closure of flat_map_iter on its component: the segment
\* graph of the component is built, polygonalize's closure segments it and
\* filters its polygons, and they join the collected Vec.
Run ==
    /\ pc = "partition"
    /\ \E w \in Workers :
          /\ bridge.workers[w].at = "task"
          /\ Collected(segment(build_segment_graph_from_adjacency_list_of_points(
                                   Some(bridge.workers[w].partition), adjacencies)))
          /\ partitions' = partitions \ {bridge.workers[w].partition}
          /\ bridge' = [bridge EXCEPT !.workers[w] = Waiting]
    /\ UNCHANGED << Shared, explored, cursor, emitted >>

NextBridge ==
    \/ Construct
    \/ Leaves
    \/ Prune
    \/ Pruned
    \/ Lock
    \/ Yield
    \/ Run
    \/ Collect

SpecBridge == InitBridge /\ [][NextBridge]_vars

(***************************************************************************)
(* C11.  Every polygon that filter has yielded, in either mode, has a      *)
(* projected area of at least the threshold, and no polygon handed to      *)
(* filter with a smaller projected area is in the output.                  *)
(***************************************************************************)
ThresholdEnforced ==
    /\ \A i \in DOMAIN output : LargeEnough(output[i], minimum_area_projected)
    /\ \A q \in paths :
          ~LargeEnough(q, minimum_area_projected) =>
              \A i \in DOMAIN output : output[i].set # q.set

\* filter has discarded a polygon for its projected area and yielded another.
SmallDropped ==
    /\ Returned
    /\ Len(output) > 0
    /\ \E q \in paths : ~LargeEnough(q, minimum_area_projected)

\* The vertex list `other` is `list` rotated by some places, or reversed and
\* rotated.
Turned(list, other) ==
    /\ Len(other) = Len(list)
    /\ \E shift \in 0..(Len(list) - 1) :
          \/ \A i \in 1..Len(list) : other[i] = list[((i - 1 + shift) % Len(list)) + 1]
          \/ \A i \in 1..Len(list) :
                other[i] = Reverse(list)[((i - 1 + shift) % Len(list)) + 1]

\* The vertices of the list are distinct.
Distinct(list) == Cardinality(Range(list)) = Len(list)

(***************************************************************************)
(* C12.  Two polygons made by Polygon::from are equal exactly when the     *)
(* vertex sets of their lists are equal, equal polygons have equal hashes, *)
(* and the HashSet they are inserted into holds one element for each       *)
(* vertex set; so the polygons of a list of distinct vertices and of any   *)
(* rotation or reversal of it are equal, have equal hashes and are one     *)
(* element of the set.                                                     *)
(***************************************************************************)
EqualByVertexSet ==
    /\ \A a, b \in made :
          /\ PolygonEq(a.polygon, b.polygon) <=> Range(a.vertices) = Range(b.vertices)
          /\ PolygonEq(a.polygon, b.polygon) =>
                 PolygonHash(a.polygon) = PolygonHash(b.polygon)
          /\ (Distinct(a.vertices) /\ Turned(a.vertices, b.vertices)) =>
                 /\ PolygonEq(a.polygon, b.polygon)
                 /\ PolygonHash(a.polygon) = PolygonHash(b.polygon)
    /\ Cardinality(paths) = Cardinality({ Range(m.vertices) : m \in made })

\* A list of three or more distinct vertices and a rotation or reversal of
\* it have been made polygons with different vertex sequences, and the set
\* holds one polygon.
TurnedCollapsed ==
    \E a, b \in made :
        /\ Len(a.vertices) >= 3
        /\ Distinct(a.vertices)
        /\ Turned(a.vertices, b.vertices)
        /\ a.polygon.sequence # b.polygon.sequence
        /\ Cardinality(paths) = 1

(***************************************************************************)
(* C13.  The sequence Polygon::from stores is closed, its first vertex is  *)
(* its last, and the z component of its normal is not negative: it is the  *)
(* closed input list, reversed exactly when the z component of the normal  *)
(* of the closed input list is negative.                                   *)
(***************************************************************************)
ClosedAndOriented ==
    \A m \in made :
        LET closed == Append(m.vertices, m.vertices[1])
            sequence == m.polygon.sequence
        IN  /\ sequence[1] = sequence[Len(sequence)]
            /\ normal(sequence)[3] >= 0
            /\ sequence = IF normal(closed)[3] < 0 THEN Reverse(closed) ELSE closed

\* A vertex list whose normal points downwards has been stored reversed.
StoredReversed ==
    \E m \in made :
        /\ normal(Append(m.vertices, m.vertices[1]))[3] < 0
        /\ m.polygon.sequence = Reverse(Append(m.vertices, m.vertices[1]))
        /\ m.polygon.sequence # Append(m.vertices, m.vertices[1])

\* The point graph `map` is symmetric and has no self-loop.
Symmetric(map) ==
    \A u \in DOMAIN map :
        /\ u \notin map[u]
        /\ \A v \in map[u] : v \in DOMAIN map /\ u \in map[v]

\* No key of `map` has an empty adjacency set.
NoEmptySet(map) == \A u \in DOMAIN map : map[u] # {}

\* The point graph has been constructed; a round of pruning may have run.
Constructed == pc \in {"leaves", "prune", "apply", "partition", "done"}

(***************************************************************************)
(* C15, as claimed.  Right after construction and after every round of     *)
(* pruning, the final one included, the point graph is symmetric, has no   *)
(* self-loop and has no key with an empty adjacency set.                   *)
(***************************************************************************)
WellFormedAfterEveryRound ==
    Constructed => Symmetric(adjacencies) /\ NoEmptySet(adjacencies)

(***************************************************************************)
(* C15, amended.  Right after construction and after every round of        *)
(* pruning the point graph is symmetric and has no self-loop; no key has   *)
(* an empty adjacency set right after construction and when pruning has    *)
(* returned, and after a round that is not the last every key with an      *)
(* empty adjacency set is a leaf of the next round.                        *)
(***************************************************************************)
WellFormedWhenPruned ==
    Constructed =>
        /\ Symmetric(adjacencies)
        /\ (pc = "leaves" \/ PruneReturned) => NoEmptySet(adjacencies)
        /\ pc = "prune" =>
               \A u \in DOMAIN adjacencies : adjacencies[u] = {} => u \in leaves

\* A round of pruning has left a key with an empty adjacency set, to be
\* removed in the next round.
EmptySetBetweenRounds ==
    /\ pc = "prune"
    /\ DOMAIN adjacencies # DOMAIN PointGraph
    /\ \E u \in DOMAIN adjacencies : adjacencies[u] = {} /\ u \in leaves

\* The segment graph has just been built and segment() has not begun.
Built == pc = "segment" /\ loop.at = "sources" /\ loop.called = {}

\* The point p is retained: it is in the point filter, or there is none.
Retained(p) == component = None \/ p \in component[1]

(***************************************************************************)
(* C14.  The segment graph built from the point graph and the optional     *)
(* point filter has the edge (u,p) -> (p,w) exactly when p is retained, u  *)
(* and w are neighbours of p in the point graph and u # w; so a-b and b-c  *)
(* are edges of the point graph and a # c for every edge (a,b) -> (b,c),   *)
(* and every key has a successor.                                          *)
(***************************************************************************)
SegmentGraphExact ==
    Built =>
        /\ \A u, p, w \in Range(Points) :
              (/\ << u, p >> \in DOMAIN segment_graph
               /\ << p, w >> \in segment_graph[<< u, p >>])
              <=> (/\ p \in DOMAIN adjacencies
                   /\ Retained(p)
                   /\ u \in adjacencies[p]
                   /\ w \in adjacencies[p]
                   /\ u # w)
        /\ \A s \in DOMAIN segment_graph :
              /\ segment_graph[s] # {}
              /\ \A t \in segment_graph[s] :
                    /\ t[1] = s[2]
                    /\ t[2] # s[1]
                    /\ s[2] \in adjacencies[s[1]]
                    /\ t[2] \in adjacencies[t[1]]

\* A segment graph has been built for one of two components: its point
\* filter leaves points of the point graph out.
ComponentBuilt ==
    /\ Built
    /\ component # None
    /\ segment_graph # << >>
    /\ \E p \in DOMAIN adjacencies : ~Retained(p)

\* The innermost call of traverse has been entered and will take the third
\* branch, the exploring step.
AboutToExplore ==
    /\ Inside("entry")
    /\ ~Retraced(traversal, Top.current)
    /\ Top.current \notin DOMAIN traversal.depth

(***************************************************************************)
(* C16.  The traversal does not fail on the segment graph of a pruned      *)
(* point graph, with or without a component filter: the stack is not empty *)
(* when the exploring step pushes a segment, the segment it has pushed is  *)
(* a key of the segment adjacency, so that the lookup does not panic, and  *)
(* segment() returns no polygon for an empty adjacency.                    *)
(***************************************************************************)
TraversalCannotFail ==
    /\ pc # "panic"
    /\ AboutToExplore => Len(traversal.stack) > 0
    /\ Inside("pushed") =>
          /\ Top.current \in DOMAIN segment_graph
          /\ traversal.stack[Len(traversal.stack)] = Top.current
    /\ (pc = "filter" /\ DOMAIN segment_graph = {}) => traversal.paths = {}

\* In the segment graph of one of two components a segment has been pushed
\* above two others and is about to be looked up.
PushedInComponent ==
    /\ Inside("pushed")
    /\ Len(traversal.stack) >= 3
    /\ \E p \in DOMAIN adjacencies : ~Retained(p)

\* The assertions of segment(): between two calls of traverse the stack is
\* the source alone, at depth 0, and between two sources, and when segment()
\* has returned, stack and depth are empty.
Asserted ==
    /\ (pc = "segment" /\ loop.at = "successors") =>
          /\ traversal.stack = << loop.source >>
          /\ traversal.depth = (loop.source :> 0)
    /\ ((pc = "segment" /\ loop.at = "sources") \/ pc = "filter") =>
          /\ traversal.stack = << >>
          /\ DOMAIN traversal.depth = {}

\* A step in which a call of traverse returns leaves stack and depth as the
\* call found them; a step that backtracks or closes a path changes neither,
\* and the step that backtracks leaves paths alone too.
Restored ==
    /\ Len(frames') < Len(frames) =>
          /\ traversal'.stack = Top.entered.stack
          /\ traversal'.depth = Top.entered.depth
    /\ (Inside("entry") /\ ~AboutToExplore) =>
          /\ traversal'.stack = traversal.stack
          /\ traversal'.depth = traversal.depth
          /\ Len(frames') = Len(frames) - 1
          /\ Retraced(traversal, Top.current) => traversal'.paths = traversal.paths

(***************************************************************************)
(* C17.  Every call of traverse returns with stack and depth as they were  *)
(* when it was entered: the backtracking and the closing step change       *)
(* neither, and the exploring step pops what it has pushed.  So the        *)
(* assertions of segment() hold: after each call it makes the stack is the *)
(* source alone and depth is {source: 0}, and when the source is popped    *)
(* both are empty.                                                         *)
(***************************************************************************)
StackRestored == []Asserted /\ [][Restored]_vars

\* A call that explored has returned to the call that made it, two or more
\* segments above the source.
ReturnedToCaller ==
    /\ Inside("called")
    /\ traversal.result = "Exploring"
    /\ Len(traversal.stack) >= 3

\* The vertices the closing step is about to emit: the first points of the
\* segments of the stack from the position of `current` on.
Emitted ==
    [i \in 1..(Len(traversal.stack) - traversal.depth[Top.current]) |->
        traversal.stack[traversal.depth[Top.current] + i][1]]

\* Every two consecutive vertices of the list, and the last with the first,
\* are neighbours in the point graph `map`.
ClosedWalk(list, map) ==
    \A i \in 1..Len(list) :
        /\ list[i] \in DOMAIN map
        /\ list[(i % Len(list)) + 1] \in map[list[i]]

\* Every side of the polygon is a segment of the input, in one of its two
\* orientations.
SidesAreSegments(polygon) ==
    \A j \in 1..(Len(polygon.sequence) - 1) :
        \E k \in DOMAIN segments :
            \/ segments[k] = << polygon.sequence[j], polygon.sequence[j + 1] >>
            \/ segments[k] = << polygon.sequence[j + 1], polygon.sequence[j] >>

(***************************************************************************)
(* C18.  When traverse is about to emit a polygon, depth[current] is the   *)
(* index of `current` in the stack, and the vertices it emits are a closed *)
(* walk in the pruned point graph.  So every side of every polygon of      *)
(* paths and of the output is a segment of the input in one of its two     *)
(* orientations.                                                           *)
(***************************************************************************)
EmittedIsClosedWalk ==
    /\ (pc = "segment" /\ loop.at # "sources") =>
          \A s \in DOMAIN traversal.depth :
              /\ traversal.depth[s] < Len(traversal.stack)
              /\ traversal.stack[traversal.depth[s] + 1] = s
    /\ AboutToClose =>
          /\ traversal.stack[traversal.depth[Top.current] + 1] = Top.current
          /\ ClosedWalk(Emitted, adjacencies)
    /\ pc \in {"segment", "filter"} =>
          \A polygon \in traversal.paths : SidesAreSegments(polygon)
    /\ \A i \in DOMAIN output : SidesAreSegments(output[i])

\* traverse is about to emit a polygon from a position above the base of
\* the stack, of an input from which a dead end was pruned.
ClosingAboveBase ==
    /\ AboutToClose
    /\ traversal.depth[Top.current] > 0
    /\ DOMAIN adjacencies # Vertices(segments)

\* The stack holds no segment twice and no segment together with its reverse.
NoSegmentTwice(stack) ==
    \A i, j \in DOMAIN stack :
        /\ i # j => stack[i] # stack[j]
        /\ stack[i] # << stack[j][2], stack[j][1] >>

\* The polygon has three sides or more and no two of its sides are the same
\* undirected edge.
NoSideTwice(polygon) ==
    /\ Len(polygon.sequence) >= 4
    /\ \A j, k \in 1..(Len(polygon.sequence) - 1) :
          j # k =>
              { polygon.sequence[j], polygon.sequence[j + 1] }
                  # { polygon.sequence[k], polygon.sequence[k + 1] }

\* While segment() runs, the stack holds no segment twice and none with its
\* reverse, depth has the segments of the stack as its keys, and no emitted
\* polygon has two sides or uses an undirected edge twice.
NoUTurnOnStack ==
    pc \in {"segment", "filter"} =>
        /\ NoSegmentTwice(traversal.stack)
        /\ DOMAIN traversal.depth = Range(traversal.stack)
        /\ \A polygon \in traversal.paths : NoSideTwice(polygon)

\* A call entered on a segment whose reverse is in depth returns
\* Backtracking and changes nothing else: nothing is pushed, no successor is
\* elected, no polygon is emitted.
BacktracksAtOnce ==
    (Inside("entry") /\ Retraced(traversal, Top.current)) =>
        /\ traversal' = [traversal EXCEPT !.result = "Backtracking"]
        /\ frames' = SubSeq(frames, 1, Len(frames) - 1)

(***************************************************************************)
(* C19.  In every state of the traversal the stack holds no segment twice  *)
(* and never a segment together with its reverse; a call whose segment has *)
(* its reverse in depth returns Backtracking without pushing, electing or  *)
(* emitting anything.  So no emitted polygon uses an undirected edge twice *)
(* and none has two sides only.                                            *)
(***************************************************************************)
NoUTurn == []NoUTurnOnStack /\ [][BacktracksAtOnce]_vars

\* A call has returned Backtracking to a call two or more segments above the
\* source.
BacktrackedToCaller ==
    /\ Inside("called")
    /\ traversal.result = "Backtracking"
    /\ Len(traversal.stack) >= 3

\* The score pair of the candidate `next` is lexicographically smaller than
\* that of `other`, for a walk that came over `previous` to `current`:
\* (theta, coplanarity) in the first pass, (coplanarity, theta) in the second.
LexLess(pass, previous, current, next, other) ==
    LET angle(candidate) == theta(current, candidate)
        volume(candidate) ==
            coplanarity(previous[1], current[1], current[2], candidate[2])
        sameAngle == /\ ~ThetaLess(angle(next), angle(other))
                     /\ ~ThetaLess(angle(other), angle(next))
    IN  IF pass = ThetaFirst
        THEN \/ ThetaLess(angle(next), angle(other))
             \/ sameAngle /\ volume(next) < volume(other)
        ELSE \/ volume(next) < volume(other)
             \/ volume(next) = volume(other) /\ ThetaLess(angle(next), angle(other))

\* Every call of traverse that another call has made is on a successor of
\* the caller's segment than which no successor has a smaller score pair.
MinimumElected ==
    (pc = "segment" /\ loop.at = "traverse") =>
        \A i \in 2..Len(frames) :
            /\ frames[i - 1].at = "called"
            /\ frames[i].previous = frames[i - 1].current
            /\ frames[i].current \in segment_graph[frames[i - 1].current]
            /\ \A other \in segment_graph[frames[i - 1].current] :
                  ~LexLess(loop.pass, frames[i - 1].previous, frames[i - 1].current,
                           other, frames[i].current)

\* When segment() returns, traverse has been called by it on every source
\* and successor, under both criteria.
EveryPairTraversed ==
    pc = "filter" =>
        loop.called =
            UNION { { << s, t, pass >> : t \in segment_graph[s] } :
                    s \in DOMAIN segment_graph, pass \in {ThetaFirst, CoplanarityFirst} }

\* The exploring step makes one call: the step after the push calls traverse
\* once, and when that call has returned the next step returns.
OneCall ==
    /\ Inside("pushed") =>
          /\ Len(frames') = Len(frames) + 1
          /\ SubSeq(frames', 1, Len(frames) - 1) = SubSeq(frames, 1, Len(frames) - 1)
    /\ Inside("called") => Len(frames') = Len(frames) - 1

(***************************************************************************)
(* C20.  The exploring step recurs on exactly one successor; it is a       *)
(* member of the adjacency of `current`, and no member has a               *)
(* lexicographically smaller score pair: (theta(current, next),            *)
(* coplanarity(previous.u, current.u, current.v, next.v)) in the first     *)
(* pass and (coplanarity, theta) in the second.  Both passes run from      *)
(* every pair of a source and a successor.                                 *)
(***************************************************************************)
MinimalSuccessor == [](MinimumElected /\ EveryPairTraversed) /\ [][OneCall]_vars

\* In the second pass a call has been made on a successor that is not the
\* first one the adjacency set yields.
LaterSuccessorElected ==
    /\ pc = "segment"
    /\ loop.at = "traverse"
    /\ loop.pass = CoplanarityFirst
    /\ \E i \in 2..Len(frames) :
          frames[i].current # IterSegments(segment_graph[frames[i - 1].current])[1]

\* The pairs of a source and a successor in the adjacency of the segment
\* graph.
SourcePairs == UNION { { << s, t >> : t \in segment_graph[s] } : s \in DOMAIN segment_graph }

\* Inside a traversal segment() has started, no more calls of traverse have
\* been made than the segment graph has segments, plus one, and the calls
\* that have not returned are among them.
StepsBounded ==
    (pc = "segment" /\ loop.at = "traverse") =>
        /\ Len(frames) <= loop.steps
        /\ loop.steps <= Cardinality(DOMAIN segment_graph) + 1

\* segment() calls traverse on no source, successor and criterion twice,
\* and when it returns it has called it twice on every pair.
TwoPerPair ==
    /\ pc \in {"segment", "filter"} => loop.calls = Cardinality(loop.called)
    /\ pc = "filter" =>
          /\ loop.calls = 2 * Cardinality(SourcePairs)
          /\ \A pair \in SourcePairs :
                 { pass \in {ThetaFirst, CoplanarityFirst} :
                      << pair[1], pair[2], pass >> \in loop.called }
                    = {ThetaFirst, CoplanarityFirst}

\* A call of traverse is made only by the innermost call made so far in the
\* traversal: no call that has been returned to calls again.
NoBranch ==
    (pc = "segment" /\ loop.at = "traverse" /\ Len(frames') > Len(frames)) =>
        /\ Len(frames') = Len(frames) + 1
        /\ Len(frames) = loop.steps
        /\ loop.steps' = loop.steps + 1

\* segment() is running.
Segmenting == pc = "segment"

\* segment() has returned.
Segmented == pc = "filter"

\* A traversal segment() has started is running.
Traversing == pc = "segment" /\ loop.at = "traverse"

\* The traversal has returned to the loop of segment().
TraversalOver == pc = "segment" /\ loop.at = "successors"

(***************************************************************************)
(* C21.  The traversal does not branch and always terminates: a call of    *)
(* traverse makes at most one call of traverse, every traversal segment()  *)
(* starts from a source and a successor returns after at most as many      *)
(* calls of traverse as the segment graph has segments, plus one, and      *)
(* segment() returns after exactly two traversals from every pair of a     *)
(* source and a successor.                                                 *)
(***************************************************************************)
LinearAndTerminating ==
    /\ [](StepsBounded /\ TwoPerPair)
    /\ [][NoBranch]_vars
    /\ (Traversing ~> TraversalOver)
    /\ (Segmenting ~> Segmented)

\* segment() has returned after a traversal of more than three calls of
\* traverse, having traversed from more pairs than one.
LongTraversalReturned ==
    /\ pc = "filter"
    /\ loop.steps > 3
    /\ loop.calls > 2


\* When a path closes, the stack holds no more segments than the polygon it
\* emits has vertices: the emitted slice is the whole stack.
DepthWithinCycle ==
    AboutToClose => Len(traversal.stack) <= Len(Emitted)

(***************************************************************************)
(* C22.  When a path closes, the calls of traverse that have not returned  *)
(* are as many as the segments on the stack, the source at the bottom      *)
(* included, and the stack is a lead-in of depth[current] segments below   *)
(* the emitted slice: its length is depth[current] plus the number of      *)
(* emitted vertices, and it is bounded by the number of segments of the    *)
(* segment graph, not by the number of emitted vertices.                   *)
(***************************************************************************)
DepthIsLeadInPlusCycle ==
    AboutToClose =>
        /\ Len(frames) = Len(traversal.stack)
        /\ traversal.stack[1] = loop.source
        /\ traversal.depth[Top.current] >= 0
        /\ Len(traversal.stack) = traversal.depth[Top.current] + Len(Emitted)
        /\ Len(Emitted) >= 1
        /\ Len(traversal.stack) <= Cardinality(DOMAIN segment_graph)

\* A path closes above a lead-in of two segments or more, the source among
\* them: the stack is longer than the polygon has vertices.
LeadInCarried ==
    /\ AboutToClose
    /\ traversal.depth[Top.current] >= 2
    /\ Len(traversal.stack) > Len(Emitted) + 1


\* The loop of prune_adjacency_list_of_points is running or about to exit.
Pruning == pc = "prune"

\* The loop of prune_adjacency_list_of_points exits.
PruningOver == pc = "prune" /\ leaves = {}

\* The round leaves fewer vertices in the graph than it found.
RoundReduces ==
    RoundEntered => Cardinality(DOMAIN adjacencies') < Cardinality(DOMAIN adjacencies)

\* Pruning terminates, and every round of its loop strictly reduces the
\* number of vertices of the graph.
EveryRoundReduces == (Pruning ~> PruningOver) /\ [][RoundReduces]_vars

\* The round removes from the graph exactly its leaves that are still in
\* it, and leaves for the next round only vertices it has not removed, or
\* the last neighbour of a leaf that it removed as well; a round none of
\* whose leaves is still in the graph changes nothing and leaves no leaf for
\* a next round.
RoundRemovesPresentLeaves ==
    RoundEntered =>
        /\ DOMAIN adjacencies' = (DOMAIN adjacencies) \ leaves
        /\ leaves' \subseteq DOMAIN adjacencies
        /\ (leaves \cap DOMAIN adjacencies # {}) =>
              Cardinality(DOMAIN adjacencies') < Cardinality(DOMAIN adjacencies)
        /\ (leaves \cap DOMAIN adjacencies = {}) =>
              /\ adjacencies' = adjacencies
              /\ leaves' = {}

(***************************************************************************)
(* C23.  Pruning terminates on every point graph, and no round of its loop *)
(* adds a vertex: a round removes exactly those of its leaves that are     *)
(* still in the graph, so it strictly reduces the number of vertices when  *)
(* one of them is.  A round whose leaves were all removed in an earlier    *)
(* round, such as the second endpoint of an isolated edge, removes         *)
(* nothing, and it is the last round.                                      *)
(***************************************************************************)
PruningTerminates == (Pruning ~> PruningOver) /\ [][RoundRemovesPresentLeaves]_vars

\* After a round that removed vertices, the next round is entered with
\* leaves that are all gone from the graph.
StaleRoundEntered ==
    /\ RoundEntered
    /\ leaves \cap DOMAIN adjacencies = {}
    /\ DOMAIN adjacencies # Vertices(segments)


\* The workers that hold a component and have not yet run their task on it.
Tasked == { w \in Workers : bridge.workers[w].at = "task" }

\* The workers inside next(), where the explored set is read and written.
Exploring == { w \in Workers : bridge.workers[w].at = "next" }

\* Every component is discovered: no key is left unexplored.
Decomposed == explored = DOMAIN adjacencies

\* The explored set is in the hands of at most one worker at a time.
OneExplorerAtATime == Cardinality(Exploring) <= 1

\* The explored set changes only in a step of the worker that holds the
\* lock, and that step releases the lock.
ExploredUnderLock ==
    (pc = "partition" /\ explored' # explored) =>
        \E w \in Exploring :
            /\ bridge'.workers[w].at = "task"
            /\ bridge'.workers[w].partition = explored' \ explored

WholeComponents ==
    pc = "partition" =>
        \A w \in Tasked :
            /\ bridge.workers[w].partition # {}
            /\ bridge.workers[w].partition \subseteq explored
            /\ \A p \in bridge.workers[w].partition :
                   adjacencies[p] \subseteq bridge.workers[w].partition
            /\ \A v \in Tasked \ {w} :
                   bridge.workers[v].partition \cap bridge.workers[w].partition = {}

=============================================================================
